---- MODULE Spec2Model ----
(***************************************************************************)
(* Autocorrect commands of the editor: handleReplacement (Space/Enter),    *)
(* handleQuote (quote keys) and handleBackspace (Backspace).               *)
(*                                                                         *)
(* A document is a sequence of characters; a character is one UTF-16 code  *)
(* unit, written as a string.  ASCII characters are written literally; the *)
(* others by name: "ldq" (U+201C), "rdq" (U+201D), "lsq" (U+2018), "rsq"   *)
(* (U+2019), "laquo" (U+00AB), "raquo" (U+00BB), "rsaquo" (U+203A),        *)
(* "ndash" (U+2013), "mdash" (U+2014), "ellipsis" (U+2026).                *)
(* Positions are 0-based offsets between characters, as in the editor.     *)
(***************************************************************************)
EXTENDS Integers, Sequences, FiniteSets

VARIABLES
  doc,          \* view.state.doc
  sel,          \* view.state.selection.ranges
  tree,         \* syntaxTree(view.state): one syntax node [name, from, to]
  autocorrect,  \* view.state.field(configField).autocorrect
  pc,           \* "idle", or what the editor must still do with the key
  key,          \* the key being handled
  budget,       \* keystrokes this behaviour may still take
  hist          \* one record per handler call of this behaviour

vars == <<doc, sel, tree, autocorrect, pc, key, budget, hist>>

\* Bounds of the model.
MaxRanges == 2
MaxQuoteKeys == 3
MaxReplacementKeys == 1

Max(a, b) == IF a >= b THEN a ELSE b
Min(a, b) == IF a <= b THEN a ELSE b

SetMin(S) == CHOOSE x \in S : \A y \in S : x <= y

RECURSIVE Concat(_)
\* The concatenation of a sequence of sequences.
Concat(ss) == IF ss = <<>> THEN <<>> ELSE Head(ss) \o Concat(Tail(ss))

RECURSIVE SumSeq(_)
SumSeq(ns) == IF ns = <<>> THEN 0 ELSE Head(ns) + SumSeq(Tail(ns))

(***************************************************************************)
(* Strings and documents                                                   *)
(***************************************************************************)

\* view.state.sliceDoc(from, to): the text between two positions; positions
\* outside the document are clipped (sliceDoc(-1, 0) is the empty string).
sliceDoc(d, from, to) == SubSeq(d, Max(from, 0) + 1, Min(to, Len(d)))

\* String.prototype.endsWith
endsWith(s, suffix) ==
  /\ Len(suffix) <= Len(s)
  /\ SubSeq(s, Len(s) - Len(suffix) + 1, Len(s)) = suffix

\* String.prototype.includes: substring search (the empty string is included
\* in every string).
includes(s, sub) ==
  \E i \in 0..(Len(s) - Len(sub)) : SubSeq(s, i + 1, i + Len(sub)) = sub

\* Array.prototype.includes
arrayIncludes(arr, x) == \E i \in 1..Len(arr) : arr[i] = x

RECURSIVE split(_, _)
\* String.prototype.split on a one-character separator.
split(s, sep) ==
  IF \A i \in 1..Len(s) : s[i] # sep THEN <<s>>
  ELSE LET i == SetMin({j \in 1..Len(s) : s[j] = sep})
       IN <<SubSeq(s, 1, i - 1)>> \o split(SubSeq(s, i + 1, Len(s)), sep)

\* view.state.doc.lineAt(pos).text: the text of the line around a position.
lineAt(d, pos) ==
  LET starts == {0} \cup {i \in 1..pos : d[i] = "\n"}
      from == CHOOSE i \in starts : \A j \in starts : j <= i
      ends == {Len(d)} \cup {i \in pos..(Len(d) - 1) : d[i + 1] = "\n"}
      to == SetMin(ends)
  IN sliceDoc(d, from, to)

startChars_NoLongDashes == <<" ", "(", "[", "{", "-">>

\* These characters can be directly followed by a starting magic quote
startChars == <<" ", "(", "[", "{", "-", "ndash", "mdash">>

\* The separator of the two glyphs of a magic quote pair.
QuoteSeparator == "ellipsis"

(***************************************************************************)
(* Selections                                                              *)
(***************************************************************************)

\* EditorSelection.range(anchor, head), kept as its from/to.
Range(a, b) == [from |-> Min(a, b), to |-> Max(a, b)]
\* EditorSelection.cursor(pos)
Cursor(p) == [from |-> p, to |-> p]
empty(range) == range.from = range.to

RECURSIVE MergeRanges(_, _)
\* EditorSelection.normalized, after the sort: a range that starts inside
\* the range before it, or a cursor that touches it, is merged into it.
MergeRanges(acc, rest) ==
  IF rest = <<>> THEN acc
  ELSE LET range == Head(rest)
       IN IF acc = <<>> THEN MergeRanges(<<range>>, Tail(rest))
          ELSE LET prev == acc[Len(acc)]
                   touches == IF empty(range) THEN range.from <= prev.to
                              ELSE range.from < prev.to
               IN IF touches
                  THEN MergeRanges(SubSeq(acc, 1, Len(acc) - 1)
                                     \o <<[from |-> prev.from, to |-> Max(range.to, prev.to)]>>,
                                   Tail(rest))
                  ELSE MergeRanges(Append(acc, range), Tail(rest))

RECURSIVE SortRanges(_)
\* ranges.sort((a, b) => a.from - b.from), a stable sort.
SortRanges(ranges) ==
  IF ranges = <<>> THEN <<>>
  ELSE LET least == SetMin({ranges[i].from : i \in 1..Len(ranges)})
           i == SetMin({j \in 1..Len(ranges) : ranges[j].from = least})
       IN <<ranges[i]>> \o SortRanges(SubSeq(ranges, 1, i - 1) \o SubSeq(ranges, i + 1, Len(ranges)))

\* EditorSelection.create
CreateSelection(ranges) == MergeRanges(<<>>, SortRanges(ranges))

(***************************************************************************)
(* Transactions                                                            *)
(***************************************************************************)

\* A change {from, to, insert} of a ChangeSpec.
Change(from, to, insert) == [from |-> from, to |-> to, insert |-> insert]

\* Whether the character at offset i is deleted by one of the changes.
deleted(changes, i) ==
  \E k \in 1..Len(changes) : changes[k].from <= i /\ i < changes[k].to

\* The text the changes insert at position p, in the order of the changes.
insertedAt(changes, p) ==
  Concat([k \in 1..Len(changes) |->
            IF changes[k].from = p THEN changes[k].insert ELSE <<>>])

\* The document of the state after view.dispatch({ changes }): every change is
\* relative to the document before the transaction; the deleted spans are
\* removed and every insertion is kept.
applyChanges(d, changes) ==
  Concat([q \in 1..(Len(d) + 1) |->
            insertedAt(changes, q - 1)
              \o (IF q <= Len(d) /\ ~deleted(changes, q - 1) THEN <<d[q]>> ELSE <<>>)])

\* ChangeDesc.mapPos: where a position of the old document is in the new one.
\* An insertion at the position itself comes before it only for assoc > 0; a
\* position inside a replaced span goes before its insertion for assoc < 0.
mapPos(changes, pos, assoc) ==
  LET kept == Cardinality({i \in 0..(pos - 1) : ~deleted(changes, i)})
      counts(c) ==
        \/ c.from < pos /\ ~(pos < c.to /\ assoc < 0)
        \/ c.from = pos /\ c.to = pos /\ assoc > 0
  IN kept + SumSeq([k \in 1..Len(changes) |->
                      IF counts(changes[k]) THEN Len(changes[k].insert) ELSE 0])

\* SelectionRange.map
mapRange(changes, range) ==
  IF empty(range) THEN Cursor(mapPos(changes, range.from, -1))
  ELSE Range(mapPos(changes, range.from, 1), mapPos(changes, range.to, -1))

\* The selection of the state after a transaction that sets none.
mapSelection(changes, ranges) ==
  CreateSelection([i \in 1..Len(ranges) |-> mapRange(changes, ranges[i])])

\* The syntax node of the state after a transaction: it moves with the text
\* and takes in what is inserted at its ends.
mapTree(changes, t) ==
  [name |-> t.name,
   from |-> mapPos(changes, t.from, -1),
   to |-> mapPos(changes, t.to, 1)]

\* How much longer the document gets by a sequence of changes.
delta(changes) ==
  SumSeq([k \in 1..Len(changes) |->
            Len(changes[k].insert) - (changes[k].to - changes[k].from)])

\* view.state.changeByRange: the per-range results (each a new range, relative
\* to the document after its own changes, and its changes) become one
\* transaction; each new range is moved by the changes of the ranges before it.
changeByRange(results) ==
  [changes |-> Concat([i \in 1..Len(results) |-> results[i].changes]),
   selection |->
     CreateSelection(
       [i \in 1..Len(results) |->
          LET shift == SumSeq([j \in 1..(i - 1) |-> delta(results[j].changes)])
          IN [from |-> results[i].range.from + shift,
              to |-> results[i].range.to + shift]])]

(***************************************************************************)
(* The syntax tree                                                         *)
(***************************************************************************)

\* The node names of the syntax tree that occur in the model.
NodeNames ==
  {"Paragraph", "InlineCode", "CommentBlock", "FencedCode", "CodeText", "HorizontalRule"}

\* syntaxTree(state).resolve(pos, 0).type.name: the innermost node that
\* covers the position on both sides.
resolve(t, pos) ==
  IF t.from < pos /\ pos < t.to THEN t.name ELSE "Document"

posInProtectedNode(t, pos) ==
  resolve(t, pos) \in
    {"InlineCode", "CommentBlock", "FencedCode", "CodeText", "HorizontalRule"}

(***************************************************************************)
(* handleReplacement                                                       *)
(***************************************************************************)

sortReplacements_ConfiguredOrder(replacements) == replacements

RECURSIVE sortReplacements_LastOfEqualFirst(_)
sortReplacements_LastOfEqualFirst(replacements) ==
  IF replacements = <<>> THEN <<>>
  ELSE LET longest == CHOOSE n \in {Len(replacements[i].key) : i \in 1..Len(replacements)} :
                        \A i \in 1..Len(replacements) : Len(replacements[i].key) <= n
           i == CHOOSE j \in 1..Len(replacements) :
                  /\ Len(replacements[j].key) = longest
                  /\ \A o \in (j + 1)..Len(replacements) : Len(replacements[o].key) < longest
       IN <<replacements[i]>>
            \o sortReplacements_LastOfEqualFirst(
                 SubSeq(replacements, 1, i - 1)
                   \o SubSeq(replacements, i + 1, Len(replacements)))

RECURSIVE sortReplacements(_)
\* replacements.sort((a, b) => b.key.length - a.key.length) on the copy of
\* the table: a stable sort by descending key length.
sortReplacements(replacements) ==
  IF replacements = <<>> THEN <<>>
  ELSE LET longest == CHOOSE n \in {Len(replacements[i].key) : i \in 1..Len(replacements)} :
                        \A i \in 1..Len(replacements) : Len(replacements[i].key) <= n
           i == SetMin({j \in 1..Len(replacements) : Len(replacements[j].key) = longest})
       IN <<replacements[i]>>
            \o sortReplacements(SubSeq(replacements, 1, i - 1)
                                  \o SubSeq(replacements, i + 1, Len(replacements)))

LeftLines_OnlyDashes == {<<"-", "-", "-">>}

\* The lines that are left alone (YAML frontmatter and horizontal rules).
LeftLines == {<<"-", "-", "-">>, <<".", ".", ".">>}

startProtected_Unchecked(t, startOfReplacement) == FALSE

\* Whether the match is given up because its start is in a protected node.
startProtected(t, startOfReplacement) == posInProtectedNode(t, startOfReplacement)

replacementOfRange_FallThrough(d, t, replacements, range) ==
  LET maxKeyLength == Len(replacements[1].key)
      from == Max(range.from - maxKeyLength, 0)
      slice == sliceDoc(d, from, range.from)
      matching == {i \in 1..Len(replacements) :
                     /\ endsWith(slice, replacements[i].key)
                     /\ ~startProtected(t, range.from - Len(replacements[i].key))}
  IN IF ~empty(range) THEN <<>>
     ELSE IF posInProtectedNode(t, range.from) THEN <<>>
     ELSE IF lineAt(d, range.from) \in LeftLines THEN <<>>
     ELSE IF matching = {} THEN <<>>
     ELSE LET first == replacements[SetMin(matching)]
          IN <<Change(range.from - Len(first.key), range.from, first.value)>>

\* The body of the loop over the ranges: the changes one range adds.
replacementOfRange(d, t, replacements, range) ==
  LET maxKeyLength == Len(replacements[1].key)
      from == Max(range.from - maxKeyLength, 0)
      slice == sliceDoc(d, from, range.from)
      matching == {i \in 1..Len(replacements) : endsWith(slice, replacements[i].key)}
  IN IF ~empty(range) THEN <<>>
     ELSE IF posInProtectedNode(t, range.from) THEN <<>>
     ELSE IF lineAt(d, range.from) \in LeftLines THEN <<>>
     ELSE IF matching = {} THEN <<>>
     ELSE LET first == replacements[SetMin(matching)]
              startOfReplacement == range.from - Len(first.key)
          IN IF startProtected(t, startOfReplacement) THEN <<>>
             ELSE <<Change(startOfReplacement, range.from, first.value)>>

\* The changes handleReplacement collects over all ranges.
replacementChanges(d, ranges, t, ac) ==
  LET replacements == sortReplacements(ac.replacements)
  IN Concat([i \in 1..Len(ranges) |-> replacementOfRange(d, t, replacements, ranges[i])])

\* The keys the keymap binds to handleReplacement.
ReplacementKeys == {" ", "\n"}

\* One call of a handler, as the history keeps it.
Call(handler, k, ret, dispatched, changes) ==
  [handler |-> handler, key |-> k, ret |-> ret, dispatched |-> dispatched,
   changes |-> changes, doc |-> doc, sel |-> sel, tree |-> tree,
   docAfter |-> doc', selAfter |-> sel']

replacementRuns_IgnoreActive(ac) == Len(ac.replacements) # 0

\* Whether handleReplacement goes on after its first check.
replacementRuns(ac) == ac.active /\ Len(ac.replacements) # 0

storedReplacements_SortedInPlace(ac) == sortReplacements(ac.replacements)

\* The configured table after a scan: the scan sorts a copy of it.
storedReplacements(ac) == ac.replacements

replacementHandled_WhenEdited(changes) == changes # <<>>

\* What handleReplacement returns, with or without changes: not handled.
replacementHandled(changes) == FALSE

HandleReplacement ==
  /\ pc = "idle"
  /\ budget > 0
  /\ \E k \in ReplacementKeys : key' = k
  /\ LET run == replacementRuns(autocorrect)
         changes == IF run THEN replacementChanges(doc, sel, tree, autocorrect) ELSE <<>>
         ret == replacementHandled(changes)
     IN /\ doc' = (IF run THEN applyChanges(doc, changes) ELSE doc)
        /\ sel' = (IF run THEN mapSelection(changes, sel) ELSE sel)
        /\ tree' = (IF run THEN mapTree(changes, tree) ELSE tree)
        /\ hist' = Append(hist, Call("handleReplacement", key', ret, run, changes))
        /\ pc' = (IF ret THEN "idle" ELSE "insert")
        /\ autocorrect' = (IF run
                           THEN [autocorrect EXCEPT !.replacements = storedReplacements(autocorrect)]
                           ELSE autocorrect)
  /\ budget' = budget - 1

(***************************************************************************)
(* handleBackspace                                                         *)
(***************************************************************************)

backspaceOfRange_PlainQuotesToo(d, ac, range) ==
  LET primaryMagicQuotes == split(ac.magicQuotes.primary, QuoteSeparator)
      secondaryMagicQuotes == split(ac.magicQuotes.secondary, QuoteSeparator)
      slice == sliceDoc(d, range.from - 1, range.from)
  IN IF range.from = 0 THEN <<>>
     ELSE IF arrayIncludes(primaryMagicQuotes, slice)
       THEN <<Change(range.from - 1, range.from, <<"\"">>)>>
     ELSE IF arrayIncludes(secondaryMagicQuotes, slice)
       THEN <<Change(range.from - 1, range.from, <<"'">>)>>
     ELSE <<>>

\* The body of the loop over the ranges: the changes one range adds.
backspaceOfRange(d, ac, range) ==
  LET primaryMagicQuotes == split(ac.magicQuotes.primary, QuoteSeparator)
      secondaryMagicQuotes == split(ac.magicQuotes.secondary, QuoteSeparator)
      slice == sliceDoc(d, range.from - 1, range.from)
  IN IF range.from = 0 THEN <<>>
     ELSE IF arrayIncludes(primaryMagicQuotes, slice) /\ slice # <<"\"">>
       THEN <<Change(range.from - 1, range.from, <<"\"">>)>>
     ELSE IF arrayIncludes(secondaryMagicQuotes, slice) /\ slice # <<"'">>
       THEN <<Change(range.from - 1, range.from, <<"'">>)>>
     ELSE <<>>

\* The changes handleBackspace collects over all ranges.
backspaceChanges(d, ranges, ac) ==
  Concat([i \in 1..Len(ranges) |-> backspaceOfRange(d, ac, ranges[i])])

\* hasHandled: some range has pushed a change.
hasHandled(d, ranges, ac) ==
  \E i \in 1..Len(ranges) : backspaceOfRange(d, ac, ranges[i]) # <<>>

\* Whether handleBackspace goes on after its first check.
backspaceRuns(ac) == ac.active

HandleBackspace ==
  /\ pc = "idle"
  /\ budget > 0
  /\ key' = "Backspace"
  /\ LET run == backspaceRuns(autocorrect)
         changes == IF run THEN backspaceChanges(doc, sel, autocorrect) ELSE <<>>
         ret == run /\ hasHandled(doc, sel, autocorrect)
     IN /\ doc' = (IF run THEN applyChanges(doc, changes) ELSE doc)
        /\ sel' = (IF run THEN mapSelection(changes, sel) ELSE sel)
        /\ tree' = (IF run THEN mapTree(changes, tree) ELSE tree)
        /\ hist' = Append(hist, Call("handleBackspace", key', ret, run, changes))
        /\ pc' = (IF ret THEN "idle" ELSE "delete")
  /\ budget' = budget - 1
  /\ UNCHANGED autocorrect

(***************************************************************************)
(* handleQuote                                                             *)
(***************************************************************************)

\* The quote keys the keymap binds to handleQuote.
QuoteKeys == {"\"", "'"}

\* The pair of the key: primary for the double quote, secondary otherwise.
quotesOf(ac, quote) ==
  LET primary == split(ac.magicQuotes.primary, QuoteSeparator)
      secondary == split(ac.magicQuotes.secondary, QuoteSeparator)
  IN IF quote = "\"" THEN primary ELSE secondary

quoteOfRange_CursorBeforeGlyph(d, quotes, range) ==
  IF empty(range)
  THEN LET charBefore == sliceDoc(d, range.from - 1, range.from)
           insert == IF includes(startChars, charBefore) THEN quotes[1] ELSE quotes[2]
       IN [range |-> Cursor(range.to),
           changes |-> <<Change(range.from, range.to, insert)>>]
  ELSE LET text == sliceDoc(d, range.from, range.to)
       IN [range |-> Range(range.from + Len(quotes[1]), range.to + Len(quotes[2])),
           changes |-> <<Change(range.from, range.to, quotes[1] \o text \o quotes[2])>>]

\* The function given to changeByRange: the new range and the change of one
\* range.  quotes[1] and quotes[2] are the code's quotes[0] and quotes[1].
quoteOfRange(d, quotes, range) ==
  IF empty(range)
  THEN LET charBefore == sliceDoc(d, range.from - 1, range.from)
           insert == IF includes(startChars, charBefore) THEN quotes[1] ELSE quotes[2]
       IN [range |-> Cursor(range.to + Len(insert)),
           changes |-> <<Change(range.from, range.to, insert)>>]
  ELSE LET text == sliceDoc(d, range.from, range.to)
       IN [range |-> Range(range.from + Len(quotes[1]), range.to + Len(quotes[2])),
           changes |-> <<Change(range.from, range.to, quotes[1] \o text \o quotes[2])>>]

\* The transaction of handleQuote.
quoteTransaction(d, ranges, ac, quote) ==
  changeByRange([i \in 1..Len(ranges) |-> quoteOfRange(d, quotesOf(ac, quote), ranges[i])])

quoteRuns_Always(ac) == TRUE

\* Whether the handler of handleQuote goes on after its first check.
quoteRuns(ac) == ac.active

HandleQuote ==
  /\ pc = "idle"
  /\ budget > 0
  /\ \E quote \in QuoteKeys :
       LET run == quoteRuns(autocorrect)
           transaction == quoteTransaction(doc, sel, autocorrect, quote)
           changes == IF run THEN transaction.changes ELSE <<>>
       IN /\ key' = quote
          /\ doc' = (IF run THEN applyChanges(doc, changes) ELSE doc)
          /\ sel' = (IF run THEN transaction.selection ELSE sel)
          /\ tree' = (IF run THEN mapTree(changes, tree) ELSE tree)
          /\ hist' = Append(hist, Call("handleQuote", quote, run, run, changes))
          /\ pc' = (IF run THEN "idle" ELSE "insert")
  /\ budget' = budget - 1
  /\ UNCHANGED autocorrect

(***************************************************************************)
(* The editor's own handling of a key no handler has handled               *)
(***************************************************************************)

\* The editor inserts the typed character at every range.
insertOfRange(k, range) ==
  [range |-> Cursor(range.from + 1),
   changes |-> <<Change(range.from, range.to, <<k>>)>>]

HostInsert ==
  /\ pc = "insert"
  /\ LET transaction == changeByRange([i \in 1..Len(sel) |-> insertOfRange(key, sel[i])])
     IN /\ doc' = applyChanges(doc, transaction.changes)
        /\ sel' = transaction.selection
        /\ tree' = mapTree(transaction.changes, tree)
  /\ pc' = "idle"
  /\ UNCHANGED <<autocorrect, key, budget, hist>>

\* The editor deletes the selected text, or the character before a cursor.
deleteOfRange(range) ==
  IF ~empty(range)
  THEN [range |-> Cursor(range.from), changes |-> <<Change(range.from, range.to, <<>>)>>]
  ELSE IF range.from = 0 THEN [range |-> range, changes |-> <<>>]
  ELSE [range |-> Cursor(range.from - 1),
        changes |-> <<Change(range.from - 1, range.from, <<>>)>>]

HostDelete ==
  /\ pc = "delete"
  /\ LET transaction == changeByRange([i \in 1..Len(sel) |-> deleteOfRange(sel[i])])
     IN /\ doc' = applyChanges(doc, transaction.changes)
        /\ sel' = transaction.selection
        /\ tree' = mapTree(transaction.changes, tree)
  /\ pc' = "idle"
  /\ UNCHANGED <<autocorrect, key, budget, hist>>

(***************************************************************************)
(* Initial states                                                          *)
(***************************************************************************)

\* The selections of a document of length n: at most MaxRanges ranges, sorted,
\* none overlapping the one before it and no cursor touching it.
Selections(n) ==
  LET Ranges == {r \in [from : 0..n, to : 0..n] : r.from <= r.to}
      valid(s) ==
        \A i \in 2..Len(s) :
          IF empty(s[i]) THEN s[i].from > s[i - 1].to ELSE s[i].from >= s[i - 1].to
  IN UNION {{s \in [1..m -> Ranges] : valid(s)} : m \in 1..MaxRanges}

\* No node of interest: the paragraph is the whole document.
NoTree(n) == [name |-> "Paragraph", from |-> 0, to |-> n]

\* The syntax trees of a document of length n: one node that covers at least
\* one position on both sides, or none.
Trees(n) ==
  {NoTree(n)} \cup
  {t \in [name : NodeNames \ {"Paragraph"}, from : 0..n, to : 0..n] : t.from + 2 <= t.to}

\* The syntax trees of the longer documents: none, or code over the first two
\* characters.
LongTrees(n) == {NoTree(n), [name |-> "InlineCode", from |-> 0, to |-> 2]}

Rule(k, v) == [key |-> k, value |-> v]

\* Replacement tables: a key that is a suffix of another, listed first;
\* the same key twice; the keys of the lines that are left alone.
Guillemets == <<Rule(<<">">>, <<"rsaquo">>), Rule(<<">", ">">>, <<"raquo">>)>>
Duplicates ==
  <<Rule(<<">">>, <<"rsaquo">>), Rule(<<">", ">">>, <<"raquo">>), Rule(<<">", ">">>, <<">", " ">>)>>
Dashes ==
  <<Rule(<<"-", "-">>, <<"ndash">>), Rule(<<"-", "-", "-">>, <<"mdash">>),
    Rule(<<".", ".", ".">>, <<"ellipsis">>)>>

\* Magic quote pairs, as configured: start, separator, end.
Curly ==
  [primary |-> <<"ldq", "ellipsis", "rdq">>, secondary |-> <<"lsq", "ellipsis", "rsq">>]
Plain ==
  [primary |-> <<"\"", "ellipsis", "\"">>, secondary |-> <<"'", "ellipsis", "'">>]
Spaced ==
  [primary |-> <<"laquo", " ", "ellipsis", "raquo">>, secondary |-> <<"lsq", "ellipsis", "rsq">>]
Swapped ==
  [primary |-> <<"'", "ellipsis", "'">>, secondary |-> <<"\"", "ellipsis", "\"">>]

Config(active, replacements, magicQuotes) ==
  [active |-> active, replacements |-> replacements, magicQuotes |-> magicQuotes]

\* The documents and configurations the replacement scans start from.
ReplacementCases ==
  {[doc |-> <<">", ">">>, autocorrect |-> Config(TRUE, Guillemets, Curly)],
   [doc |-> <<">", ">">>, autocorrect |-> Config(TRUE, Duplicates, Curly)],
   [doc |-> <<">", ">">>, autocorrect |-> Config(FALSE, Guillemets, Curly)],
   [doc |-> <<">", ">">>, autocorrect |-> Config(TRUE, <<>>, Curly)],
   [doc |-> <<"a", ">", ">">>, autocorrect |-> Config(TRUE, Guillemets, Curly)],
   [doc |-> <<"-", "-", "-">>, autocorrect |-> Config(TRUE, Dashes, Curly)],
   [doc |-> <<".", ".", ".">>, autocorrect |-> Config(TRUE, Dashes, Curly)],
   [doc |-> <<"-", "-", "-", "-">>, autocorrect |-> Config(TRUE, Dashes, Curly)],
   [doc |-> <<"\n", "-", "-", "-">>, autocorrect |-> Config(TRUE, Dashes, Curly)]}

\* The documents and configurations the quote keys start from: every
\* character that may precede a starting quote with the curly pairs, and a
\* few documents with every other configuration.
QuoteDocs == {<<>>, <<">">>, <<" ">>, <<"ldq", ">">>}
QuoteCases ==
  {[doc |-> d, autocorrect |-> Config(TRUE, Guillemets, Curly)] :
     d \in QuoteDocs \cup {<<"\n">>, <<"(">>, <<"[">>, <<"{">>, <<"-">>, <<"ndash">>, <<"mdash">>}}
  \cup
  {[doc |-> d, autocorrect |-> ac] :
     d \in QuoteDocs,
     ac \in {Config(TRUE, Guillemets, Plain), Config(TRUE, Guillemets, Spaced),
             Config(TRUE, Guillemets, Swapped), Config(FALSE, Guillemets, Curly),
             Config(TRUE, <<>>, Curly)}}

InitReplacement ==
  /\ \E c \in ReplacementCases : doc = c.doc /\ autocorrect = c.autocorrect
  /\ sel \in Selections(Len(doc))
  /\ tree \in (IF Len(doc) <= 3 THEN Trees(Len(doc)) ELSE LongTrees(Len(doc)))
  /\ budget = MaxReplacementKeys
  /\ pc = "idle" /\ key = "" /\ hist = <<>>

InitQuote ==
  /\ \E c \in QuoteCases : doc = c.doc /\ autocorrect = c.autocorrect
  /\ sel \in Selections(Len(doc))
  /\ tree = NoTree(Len(doc))
  /\ budget = MaxQuoteKeys
  /\ pc = "idle" /\ key = "" /\ hist = <<>>

Init == InitReplacement \/ InitQuote

Next ==
  \/ HandleReplacement
  \/ HandleQuote
  \/ HandleBackspace
  \/ HostInsert
  \/ HostDelete

\* Every keystroke, from any document, selection and configuration.
Spec == Init /\ [][Next]_vars
\* The keystrokes on the documents of the replacement scans.
SpecReplacement == InitReplacement /\ [][Next]_vars
\* The keystrokes on the documents of the quote keys.
SpecQuote == InitQuote /\ [][Next]_vars

(***************************************************************************)
(* Properties                                                              *)
(***************************************************************************)

\* The calls of a handler in the history.
Calls(handler) == {n \in 1..Len(hist) : hist[n].handler = handler}

\* The node names that are protected from autocorrect.
ProtectedNames == {"InlineCode", "CommentBlock", "FencedCode", "CodeText", "HorizontalRule"}

\* A position inside a protected node.
InProtected(t, pos) == t.from < pos /\ pos < t.to /\ t.name \in ProtectedNames

\* The text of a document before a position.
TextBefore(d, pos) == SubSeq(d, 1, pos)

IsSuffix(k, text) ==
  /\ Len(k) <= Len(text)
  /\ \A j \in 1..Len(k) : text[Len(text) - Len(k) + j] = k[j]

\* The keys of a table that are a suffix of a text, and the longest of a set
\* of keys.
MatchingKeys(table, text) ==
  {table[i].key : i \in {j \in 1..Len(table) : IsSuffix(table[j].key, text)}}
LongestKey(K) == CHOOSE k \in K : \A other \in K : Len(other) <= Len(k)
ValuesOf(table, k) == {table[i].value : i \in {j \in 1..Len(table) : table[j].key = k}}

\* A position on a line that is exactly --- or ...
OnLeftLine(d, pos) == lineAt(d, pos) \in {<<"-", "-", "-">>, <<".", ".", ".">>}

\* The changes of a call that end at a position.
EditsAt(h, pos) == {j \in 1..Len(h.changes) : h.changes[j].to = pos}

\* A cursor of a call that the scan of handleReplacement does not skip.
Scanned(h, range) ==
  /\ empty(range)
  /\ ~InProtected(h.tree, range.from)
  /\ ~OnLeftLine(h.doc, range.from)

\* C1: with an active configuration, for every empty cursor that is not
\* protected and not on a --- or ... line: if no key is a suffix of the text
\* before it, no edit is emitted for it; otherwise, if the start of the span
\* of the longest such key is not protected, exactly one edit is emitted for
\* it, replacing that span by the value of that key.
C1_LongestKeyReplaced ==
  \A n \in Calls("handleReplacement") :
    LET h == hist[n]
        table == autocorrect.replacements
    IN autocorrect.active =>
         \A i \in 1..Len(h.sel) :
           LET c == h.sel[i].from
               K == MatchingKeys(table, TextBefore(h.doc, c))
           IN Scanned(h, h.sel[i]) =>
                IF K = {} THEN EditsAt(h, c) = {}
                ELSE LET k == LongestKey(K)
                     IN ~InProtected(h.tree, c - Len(k)) =>
                          \E j \in 1..Len(h.changes) :
                            /\ EditsAt(h, c) = {j}
                            /\ h.changes[j].from = c - Len(k)
                            /\ h.changes[j].insert \in ValuesOf(table, k)

\* A scan has replaced the longer of two keys that both match at a cursor.
C1_Witness ==
  \E n \in Calls("handleReplacement") :
    LET h == hist[n]
    IN \E i \in 1..Len(h.sel) :
         LET c == h.sel[i].from
             K == MatchingKeys(autocorrect.replacements, TextBefore(h.doc, c))
         IN /\ autocorrect.active
            /\ Scanned(h, h.sel[i])
            /\ Cardinality(K) >= 2
            /\ \E j \in EditsAt(h, c) : h.changes[j].from = c - Len(LongestKey(K))

\* C2: every edit of handleReplacement starts and ends outside the protected
\* nodes, and an unprotected cursor whose longest matching key starts in a
\* protected node gets no edit.
C2_NoEditInProtected ==
  \A n \in Calls("handleReplacement") :
    LET h == hist[n]
    IN /\ \A j \in 1..Len(h.changes) :
            /\ ~InProtected(h.tree, h.changes[j].from)
            /\ ~InProtected(h.tree, h.changes[j].to)
       /\ \A i \in 1..Len(h.sel) :
            LET c == h.sel[i].from
                K == MatchingKeys(autocorrect.replacements, TextBefore(h.doc, c))
            IN (/\ empty(h.sel[i])
                /\ ~InProtected(h.tree, c)
                /\ K # {}
                /\ InProtected(h.tree, c - Len(LongestKey(K)))) => EditsAt(h, c) = {}

\* A scan has met an unprotected cursor whose match starts in a protected
\* node.
C2_Witness ==
  \E n \in Calls("handleReplacement") :
    LET h == hist[n]
    IN /\ h.dispatched
       /\ \E i \in 1..Len(h.sel) :
            LET c == h.sel[i].from
                K == MatchingKeys(autocorrect.replacements, TextBefore(h.doc, c))
            IN /\ Scanned(h, h.sel[i])
               /\ K # {}
               /\ InProtected(h.tree, c - Len(LongestKey(K)))
               /\ EditsAt(h, c) = {}

\* Two changes that replace a common character.
Overlap(a, b) == a.from < b.to /\ b.from < a.to

\* C3: the edits of one keystroke are pairwise non-overlapping and every range
\* contributes at most one of them.
C3_EditsDoNotOverlap ==
  \A n \in 1..Len(hist) :
    LET h == hist[n]
    IN /\ Len(h.changes) <= Len(h.sel)
       /\ \A i, j \in 1..Len(h.changes) : i # j => ~Overlap(h.changes[i], h.changes[j])

\* The glyphs of a configured pair: the text before and after the separator.
SeparatorAt(pair) == CHOOSE i \in 1..Len(pair) : pair[i] = "ellipsis"
StartGlyph(pair) == SubSeq(pair, 1, SeparatorAt(pair) - 1)
EndGlyph(pair) == SubSeq(pair, SeparatorAt(pair) + 1, Len(pair))
\* The pair of a quote key.
PairOf(quote) ==
  IF quote = "\"" THEN autocorrect.magicQuotes.primary ELSE autocorrect.magicQuotes.secondary

\* A call of handleQuote with an active configuration.
QuoteCall(n) == hist[n].handler = "handleQuote" /\ autocorrect.active

\* C4: on a single non-empty selection, the document gets the start glyph
\* before and the end glyph after the unchanged selected text, and the new
\* selection is the old one moved by the length of the start glyph.
C4_SelectionCoversText ==
  \A n \in 1..Len(hist) :
    LET h == hist[n]
    IN (QuoteCall(n) /\ Len(h.sel) = 1 /\ ~empty(h.sel[1])) =>
         LET from == h.sel[1].from
             to == h.sel[1].to
             start == StartGlyph(PairOf(h.key))
             end == EndGlyph(PairOf(h.key))
         IN /\ h.docAfter = SubSeq(h.doc, 1, from) \o start \o SubSeq(h.doc, from + 1, to)
                              \o end \o SubSeq(h.doc, to + 1, Len(h.doc))
            /\ h.selAfter = <<[from |-> from + Len(start), to |-> to + Len(start)]>>

\* The characters after which a quote key inserts the start glyph.
StartContext == {" ", "(", "[", "{", "-", "ndash", "mdash"}

\* For every empty cursor of a call of handleQuote: the start glyph is
\* inserted at document start and after a character of StartContext, the end
\* glyph after any other character.
GlyphByContext ==
  \A n \in 1..Len(hist) :
    LET h == hist[n]
    IN QuoteCall(n) =>
         \A i \in 1..Len(h.sel) :
           LET c == h.sel[i].from
               glyph == IF c = 0 \/ h.doc[c] \in StartContext
                        THEN StartGlyph(PairOf(h.key)) ELSE EndGlyph(PairOf(h.key))
           IN empty(h.sel[i]) => h.changes[i] = Change(c, c, glyph)

\* The same quote key twice in a row, first at the start of the document.
TwiceAtStart(n) ==
  /\ QuoteCall(n - 1) /\ QuoteCall(n)
  /\ hist[n - 1].key = hist[n].key
  /\ hist[n - 1].sel = <<Cursor(0)>>

StartThenEnd(n) ==
  hist[n].docAfter =
    StartGlyph(PairOf(hist[n].key)) \o EndGlyph(PairOf(hist[n].key)) \o hist[n - 1].doc

\* The start glyph does not end in a character of StartContext.
StartGlyphCloses(quote) ==
  LET start == StartGlyph(PairOf(quote))
  IN start # <<>> /\ start[Len(start)] \notin StartContext

\* C5, as amended: the glyph of every empty cursor is chosen by the character
\* before it, and the quote key pressed twice at document start yields the
\* start glyph followed by the end glyph when the start glyph does not end in
\* a character of StartContext.
C5_GlyphByContext ==
  /\ GlyphByContext
  /\ \A n \in 2..Len(hist) :
       (TwiceAtStart(n) /\ StartGlyphCloses(hist[n].key)) => StartThenEnd(n)

\* C5, as claimed: the same, for every start glyph.
C5_TwiceYieldsStartEnd ==
  /\ GlyphByContext
  /\ \A n \in 2..Len(hist) : TwiceAtStart(n) => StartThenEnd(n)

\* The quote key was pressed twice at the start of an empty document, and the
\* document is the start glyph followed by the end glyph.
C5_Witness ==
  \E n \in 2..Len(hist) :
    /\ TwiceAtStart(n)
    /\ hist[n - 1].doc = <<>>
    /\ hist[n].docAfter = <<"ldq", "rdq">>

\* What handleBackspace does for one range: nothing at document start;
\* otherwise the character before it is replaced by the plain double quote
\* when it is a glyph of the primary pair, else by the plain single quote when
\* it is a glyph of the secondary pair.
ExpectedBackspace(d, range) ==
  LET primary == autocorrect.magicQuotes.primary
      secondary == autocorrect.magicQuotes.secondary
      ch == <<d[range.from]>>
  IN IF range.from = 0 THEN <<>>
     ELSE IF ch \in {StartGlyph(primary), EndGlyph(primary)} /\ ch # <<"\"">>
       THEN <<Change(range.from - 1, range.from, <<"\"">>)>>
     ELSE IF ch \in {StartGlyph(secondary), EndGlyph(secondary)} /\ ch # <<"'">>
       THEN <<Change(range.from - 1, range.from, <<"'">>)>>
     ELSE <<>>

\* C6: handleBackspace emits for every range the replacement of the
\* directional glyph before it, if there is one, and nothing else; it returns
\* true exactly when some range was handled, and changes nothing when none was.
C6_BackspaceHandled ==
  \A n \in Calls("handleBackspace") :
    LET h == hist[n]
        expected == [i \in 1..Len(h.sel) |-> ExpectedBackspace(h.doc, h.sel[i])]
        handled == autocorrect.active /\ \E i \in 1..Len(h.sel) : expected[i] # <<>>
    IN /\ h.ret = handled
       /\ autocorrect.active => h.changes = Concat(expected)
       /\ ~handled => h.changes = <<>> /\ h.docAfter = h.doc
       /\ (handled /\ Len(h.sel) = 1) =>
            h.docAfter = [h.doc EXCEPT ![h.sel[1].from] = expected[1][1].insert[1]]

\* A backspace with two cursors, one after a directional glyph and one after
\* another character, was handled.
C6_Witness ==
  \E n \in Calls("handleBackspace") :
    LET h == hist[n]
    IN /\ h.ret
       /\ Len(h.sel) = 2
       /\ Len(h.changes) = 1
       /\ h.docAfter # h.doc

\* C7: after a quote key at a single empty cursor and a backspace that has
\* replaced the glyph, the next backspace changes nothing and returns false.
C7_SecondBackspaceNotHandled ==
  \A n \in 3..Len(hist) :
    (/\ QuoteCall(n - 2)
     /\ Len(hist[n - 2].sel) = 1 /\ empty(hist[n - 2].sel[1])
     /\ hist[n - 1].handler = "handleBackspace" /\ hist[n - 1].ret
     /\ hist[n].handler = "handleBackspace")
    => /\ ~hist[n].ret
       /\ hist[n].changes = <<>>
       /\ hist[n].docAfter = hist[n].doc

\* C8: a quote key at a single empty cursor and then one backspace leave the
\* original document with the plain quote of the key inserted at the cursor,
\* and the backspace is handled when the inserted glyph is not that quote.
C8_QuoteThenBackspace ==
  \A n \in 2..Len(hist) :
    (/\ QuoteCall(n - 1)
     /\ Len(hist[n - 1].sel) = 1 /\ empty(hist[n - 1].sel[1])
     /\ hist[n].handler = "handleBackspace")
    => LET c == hist[n - 1].sel[1].from
           d == hist[n - 1].doc
           quote == hist[n - 1].key
           glyph == hist[n - 1].changes[1].insert
       IN /\ hist[n].docAfter = SubSeq(d, 1, c) \o <<quote>> \o SubSeq(d, c + 1, Len(d))
          /\ glyph # <<quote>> => hist[n].ret

\* C9, as amended: the handler of handleQuote returns true exactly when the
\* configuration is active.
C9_HandledWhenActive ==
  \A n \in Calls("handleQuote") : hist[n].ret = autocorrect.active

\* C9, as claimed: the handler of handleQuote returns true on every call.
C9_AlwaysHandled ==
  \A n \in Calls("handleQuote") : hist[n].ret

\* The handler of handleQuote has handled a key with an active configuration.
C9_Witness ==
  \E n \in Calls("handleQuote") :
    hist[n].ret /\ autocorrect.active /\ hist[n].docAfter # hist[n].doc

\* C10: with an inactive configuration no handler changes the document or the
\* selection or submits a transaction, and neither does handleReplacement
\* with an empty table.
C10_InactiveIsNoOp ==
  \A n \in 1..Len(hist) :
    LET h == hist[n]
    IN (\/ ~autocorrect.active
        \/ h.handler = "handleReplacement" /\ autocorrect.replacements = <<>>)
       => /\ h.docAfter = h.doc
          /\ h.selAfter = h.sel
          /\ h.changes = <<>>
          /\ ~h.dispatched

\* handleReplacement was called with an inactive configuration at a cursor
\* that follows a key of the table.
C10_Witness ==
  \E n \in Calls("handleReplacement") :
    LET h == hist[n]
    IN /\ ~autocorrect.active
       /\ \E i \in 1..Len(h.sel) :
            /\ Scanned(h, h.sel[i])
            /\ MatchingKeys(autocorrect.replacements, TextBefore(h.doc, h.sel[i].from)) # {}
       /\ h.docAfter = h.doc

\* A line that contains --- or ... and more.
HasLeftText(line) ==
  /\ line \notin {<<"-", "-", "-">>, <<".", ".", ".">>}
  /\ \E j \in 1..(Len(line) - 2) :
       SubSeq(line, j, j + 2) \in {<<"-", "-", "-">>, <<".", ".", ".">>}

\* C11: handleReplacement emits no edit for an empty cursor whose line is
\* exactly --- or ..., whatever keys are a suffix of that line; a cursor on a
\* line that contains --- or ... and more is scanned like any other: with a
\* matching key whose span starts unprotected, it gets its edit.
C11_LeftLinesUntouched ==
  \A n \in Calls("handleReplacement") :
    LET h == hist[n]
    IN \A i \in 1..Len(h.sel) :
         LET c == h.sel[i].from
             K == MatchingKeys(autocorrect.replacements, TextBefore(h.doc, c))
         IN /\ (empty(h.sel[i]) /\ OnLeftLine(h.doc, c)) => EditsAt(h, c) = {}
            /\ (/\ h.dispatched
                /\ empty(h.sel[i])
                /\ ~InProtected(h.tree, c)
                /\ HasLeftText(lineAt(h.doc, c))
                /\ K # {}
                /\ ~InProtected(h.tree, c - Len(LongestKey(K)))) => EditsAt(h, c) # {}

\* A scan has left alone a cursor at the end of a --- or ... line that is not
\* the whole document, although a key is a suffix of that line.
C11_Witness ==
  \E n \in Calls("handleReplacement") :
    LET h == hist[n]
    IN /\ h.dispatched
       /\ \E i \in 1..Len(h.sel) :
            LET c == h.sel[i].from
            IN /\ empty(h.sel[i])
               /\ ~InProtected(h.tree, c)
               /\ OnLeftLine(h.doc, c)
               /\ lineAt(h.doc, c) # h.doc
               /\ MatchingKeys(autocorrect.replacements, TextBefore(h.doc, c)) # {}
               /\ EditsAt(h, c) = {}

\* The document after the editor has inserted the typed character of a call
\* of handleReplacement: the text between the ranges as it was, and at every
\* range the value of its edit, if it has one, and then the typed character.
SpanStart(h, i) ==
  LET E == EditsAt(h, h.sel[i].from)
  IN IF empty(h.sel[i]) /\ E # {} THEN h.changes[CHOOSE j \in E : TRUE].from
     ELSE h.sel[i].from
ValueAt(h, i) ==
  LET E == EditsAt(h, h.sel[i].from)
  IN IF empty(h.sel[i]) /\ E # {} THEN h.changes[CHOOSE j \in E : TRUE].insert ELSE <<>>
ReplacedAndTyped(h) ==
  LET m == Len(h.sel)
      piece(i) ==
        SubSeq(h.doc, (IF i = 1 THEN 0 ELSE h.sel[i - 1].to) + 1, SpanStart(h, i))
          \o ValueAt(h, i) \o <<h.key>>
  IN Concat([i \in 1..m |-> piece(i)]) \o SubSeq(h.doc, h.sel[m].to + 1, Len(h.doc))

\* No edit of the call replaces text of a range or of another edit.
EditsApart(h) ==
  /\ \A j \in 1..Len(h.changes) : \A i \in 1..Len(h.sel) :
       \/ h.changes[j].to <= h.sel[i].from
       \/ h.sel[i].to <= h.changes[j].from
  /\ \A i, j \in 1..Len(h.changes) : i # j => ~Overlap(h.changes[i], h.changes[j])

\* C12: every call of handleReplacement returns false, with or without
\* edits; once the editor has then inserted the typed character, the document
\* is the one before the call with, at every range, the replacement value (if
\* the range got an edit) immediately followed by the typed character, and
\* nothing else changed.
C12_ValueThenTypedCharacter ==
  /\ \A n \in Calls("handleReplacement") : hist[n].ret = FALSE
  /\ (/\ pc = "idle"
      /\ hist # <<>>
      /\ hist[Len(hist)].handler = "handleReplacement"
      /\ EditsApart(hist[Len(hist)])) => doc = ReplacedAndTyped(hist[Len(hist)])

\* The editor has inserted the typed character right behind the value, after
\* a scan that replaced a key.
C12_Witness ==
  /\ pc = "idle"
  /\ hist # <<>>
  /\ LET h == hist[Len(hist)]
     IN /\ h.handler = "handleReplacement"
        /\ EditsApart(h)
        /\ \E j \in 1..Len(h.changes) :
             LET at == h.changes[j].from
                 text == h.changes[j].insert \o <<h.key>>
             IN /\ Len(h.sel) = 1
                /\ SubSeq(doc, at + 1, at + Len(text)) = text

\* C13: no step changes the configured replacement table: after any sequence
\* of handleReplacement calls its rules are the same, in the same order, as
\* before the calls.
C13_TableUnchanged == [][autocorrect'.replacements = autocorrect.replacements]_vars

\* Two scans in a row have sorted a table that lists a shorter key before a
\* longer one, and the first of them has emitted an edit.
C13_Witness ==
  \E n \in Calls("handleReplacement") :
    /\ n + 1 \in Calls("handleReplacement")
    /\ hist[n].changes # <<>>
    /\ hist[n + 1].dispatched
    /\ \E i, j \in 1..Len(autocorrect.replacements) :
         /\ i < j
         /\ Len(autocorrect.replacements[i].key) < Len(autocorrect.replacements[j].key)

\* A cursor of a call whose longest matching key has a protected span start.
Blocked(h, i) ==
  LET c == h.sel[i].from
      K == MatchingKeys(autocorrect.replacements, TextBefore(h.doc, c))
  IN /\ empty(h.sel[i])
     /\ ~InProtected(h.tree, c)
     /\ K # {}
     /\ InProtected(h.tree, c - Len(LongestKey(K)))

\* A cursor of a call that the scan replaces: scanned, with a longest matching
\* key whose span start is not protected.
Replaceable(h, i) ==
  LET c == h.sel[i].from
      K == MatchingKeys(autocorrect.replacements, TextBefore(h.doc, c))
  IN /\ Scanned(h, h.sel[i])
     /\ K # {}
     /\ ~InProtected(h.tree, c - Len(LongestKey(K)))

\* C14: a cursor whose longest matching key has a protected span start gets
\* no edit at all, also when a shorter key matches with an unprotected span
\* start; the other cursors of the same call still get their edits.
C14_NoFallThrough ==
  \A n \in Calls("handleReplacement") :
    LET h == hist[n]
    IN \A i \in 1..Len(h.sel) :
         Blocked(h, i) =>
           /\ EditsAt(h, h.sel[i].from) = {}
           /\ \A o \in 1..Len(h.sel) :
                (h.dispatched /\ Replaceable(h, o)) =>
                  LET c == h.sel[o].from
                      k == LongestKey(MatchingKeys(autocorrect.replacements, TextBefore(h.doc, c)))
                  IN \E j \in 1..Len(h.changes) :
                       /\ EditsAt(h, c) = {j}
                       /\ h.changes[j].from = c - Len(k)
                       /\ h.changes[j].insert \in ValuesOf(autocorrect.replacements, k)

\* A scan has given no edit to a cursor whose longest key starts protected
\* while a shorter key that matches there starts unprotected, and has edited
\* another cursor of the same selection.
C14_Witness ==
  \E n \in Calls("handleReplacement") :
    LET h == hist[n]
    IN /\ h.dispatched
       /\ \E i, o \in 1..Len(h.sel) :
            LET c == h.sel[i].from
                K == MatchingKeys(autocorrect.replacements, TextBefore(h.doc, c))
            IN /\ Blocked(h, i)
               /\ ~OnLeftLine(h.doc, c)
               /\ \E k \in K : ~InProtected(h.tree, c - Len(k))
               /\ EditsAt(h, c) = {}
               /\ Replaceable(h, o)
               /\ EditsAt(h, h.sel[o].from) # {}

\* C15: handleBackspace emits edits for carets only, at most one for each,
\* and does not report handled for a selection without a caret, so that the
\* editor deletes the selected text.
C15_BackspaceOnlyAtCarets ==
  \A n \in Calls("handleBackspace") :
    LET h == hist[n]
        carets == {i \in 1..Len(h.sel) : empty(h.sel[i])}
    IN /\ Len(h.changes) <= Cardinality(carets)
       /\ carets = {} => h.ret = FALSE

\* The glyph a quote key inserts at the i-th cursor of a call, by the
\* character before the cursor in the document before the call.
GlyphAt(h, i) ==
  LET c == h.sel[i].from
  IN IF c = 0 \/ h.doc[c] \in StartContext
     THEN StartGlyph(PairOf(h.key)) ELSE EndGlyph(PairOf(h.key))

\* The position of the i-th cursor after the call: its old position and the
\* lengths of the glyphs inserted at the cursors up to it.
AfterGlyph(h, i) == h.sel[i].from + SumSeq([j \in 1..i |-> Len(GlyphAt(h, j))])

AllCursors(h) == \A i \in 1..Len(h.sel) : empty(h.sel[i])

\* C16: a quote key on a selection of empty cursors inserts, in one
\* transaction, at every cursor the glyph decided by the character before it
\* in the document before the key; afterwards there are as many cursors, all
\* empty, each right behind its glyph: at its old position plus the lengths of
\* the glyphs inserted at or before it.
C16_CursorsAfterTheirGlyphs ==
  \A n \in 1..Len(hist) :
    LET h == hist[n]
    IN (QuoteCall(n) /\ AllCursors(h)) =>
         /\ h.ret = TRUE
         /\ h.changes = [i \in 1..Len(h.sel) |->
                           Change(h.sel[i].from, h.sel[i].from, GlyphAt(h, i))]
         /\ h.selAfter = [i \in 1..Len(h.sel) |-> Cursor(AfterGlyph(h, i))]
         /\ \A i \in 1..Len(h.sel) :
              LET pos == AfterGlyph(h, i)
              IN SubSeq(h.docAfter, pos - Len(GlyphAt(h, i)) + 1, pos) = GlyphAt(h, i)
         /\ Len(h.docAfter) = Len(h.doc) + SumSeq([j \in 1..Len(h.sel) |-> Len(GlyphAt(h, j))])

\* A quote key has inserted a start glyph of several characters at one cursor
\* and the end glyph at a later one.
C16_Witness ==
  \E n \in 1..Len(hist) :
    LET h == hist[n]
    IN /\ QuoteCall(n)
       /\ AllCursors(h)
       /\ \E i, j \in 1..Len(h.sel) :
            /\ i < j
            /\ Len(GlyphAt(h, i)) > 1
            /\ GlyphAt(h, i) # GlyphAt(h, j)
            /\ h.selAfter[j] = Cursor(h.sel[j].from + Len(GlyphAt(h, i)) + Len(GlyphAt(h, j)))

\* The value of the first rule of a table that has a key.
FirstValue(table, k) ==
  table[CHOOSE i \in 1..Len(table) :
          table[i].key = k /\ \A j \in 1..(i - 1) : table[j].key # k].value

\* C17: the rules of equal key length keep their configured order in the
\* scan: the edit of a cursor inserts the value of the first rule of the
\* configured table that has the replaced key.
C17_FirstOfEqualKeys ==
  \A n \in Calls("handleReplacement") :
    LET h == hist[n]
    IN \A i \in 1..Len(h.sel) :
         (h.dispatched /\ Replaceable(h, i)) =>
           LET c == h.sel[i].from
               k == LongestKey(MatchingKeys(autocorrect.replacements, TextBefore(h.doc, c)))
           IN \A j \in EditsAt(h, c) :
                h.changes[j].insert = FirstValue(autocorrect.replacements, k)

\* A scan has replaced a key that two rules of the table have, with different
\* values.
C17_Witness ==
  \E n \in Calls("handleReplacement") :
    LET h == hist[n]
    IN \E i \in 1..Len(h.sel) :
         LET c == h.sel[i].from
             K == MatchingKeys(autocorrect.replacements, TextBefore(h.doc, c))
         IN /\ h.dispatched
            /\ Replaceable(h, i)
            /\ Cardinality(ValuesOf(autocorrect.replacements, LongestKey(K))) >= 2
            /\ \E j \in EditsAt(h, c) :
                 h.changes[j].insert = FirstValue(autocorrect.replacements, LongestKey(K))

====
